---- MODULE Spec2Model ----
(***************************************************************************)
(* boomcatch: the waterfall-svg mapper (src/mappers/waterfall-svg/index.js) *)
(* and the console forwarder (src/forwarders/console.js).                  *)
(*                                                                         *)
(* Three specifications share the variables below:                         *)
(*   Spec          initialise (settings load) followed by map calls        *)
(*   SpecResource  mapResource applied to one raw resource                 *)
(*   SpecConsole   the console forwarder's send                            *)
(***************************************************************************)
EXTENDS Integers, Sequences, FiniteSets, TLC

VARIABLES
    phase,      \* "start" | "ready" (initialise returned the bound map) | "failed" (it threw)
    settings,   \* the settings object held in the require cache and bound into map
    error,      \* message of the error initialise threw, or NoError
    call,       \* outcome of the latest map call
    resource,   \* SpecResource: the raw resource handed to mapResource
    mapped,     \* SpecResource: what mapResource returned for it
    out         \* SpecConsole: console writes and callback invocations, in order

vars == <<phase, settings, error, call, resource, mapped, out>>

(***************************************************************************)
(* JavaScript values.  Every value is a tagged record so that values of    *)
(* different types can be compared.  Numbers are exact rationals n/d with  *)
(* d > 0 in lowest terms (width / 1.8 and pixelsPerUnit are not integers). *)
(***************************************************************************)
Undefined == [t |-> "undefined"]
Null == [t |-> "null"]
NaN == [t |-> "NaN"]
Hole == [t |-> "hole"]
NoError == "none"

Abs(n) == IF n < 0 THEN -n ELSE n

RECURSIVE Gcd(_, _)
Gcd(a, b) == IF b = 0 THEN a ELSE Gcd(b, a % b)

Frac(n, d) ==
    IF d = 1 THEN [t |-> "number", n |-> n, d |-> 1]
    ELSE LET s == IF d < 0 THEN -1 ELSE 1
             g == Gcd(Abs(n), Abs(d))
         IN  [t |-> "number", n |-> (s * n) \div g, d |-> (s * d) \div g]

Num(n) == [t |-> "number", n |-> n, d |-> 1]
Str(s) == [t |-> "string", s |-> s]
Obj(f) == [t |-> "object", f |-> f]
Arr(a) == [t |-> "array", a |-> a]

IsNumber(v) == v.t = "number"

\* property lookup: a missing key reads as undefined
Get(o, k) == IF k \in DOMAIN o THEN o[k] ELSE Undefined

\* the arithmetic operators: an operand that is not a number (undefined, NaN)
\* makes the result NaN
JsAdd(a, b) ==
    IF IsNumber(a) /\ IsNumber(b)
    THEN Frac(a.n * b.d + b.n * a.d, a.d * b.d)
    ELSE NaN

JsSub(a, b) ==
    IF IsNumber(a) /\ IsNumber(b)
    THEN Frac(a.n * b.d - b.n * a.d, a.d * b.d)
    ELSE NaN

JsMul(a, b) ==
    IF IsNumber(a) /\ IsNumber(b)
    THEN Frac(a.n * b.n, a.d * b.d)
    ELSE NaN

\* a / b; a zero divisor gives NaN for 0 / 0 and an infinity otherwise (an
\* infinity is no operand of any later operation here: a zero difference comes
\* with a NaN step, which makes difference NaN first)
JsDiv(a, b) ==
    IF IsNumber(a) /\ IsNumber(b)
    THEN IF b.n = 0
         THEN IF a.n = 0 THEN NaN ELSE [t |-> "Infinity", negative |-> a.n < 0]
         ELSE Frac(a.n * b.d, a.d * b.n)
    ELSE NaN

\* truncation toward zero of a rational
Trunc(q) == IF q.n >= 0 THEN Num(q.n \div q.d) ELSE Num(-((-q.n) \div q.d))

\* a % b: the remainder has the sign of the dividend; x % 0 is NaN
JsRem(a, b) ==
    IF IsNumber(a) /\ IsNumber(b) /\ b.n # 0
    THEN JsSub(a, JsMul(b, Trunc(JsDiv(a, b))))
    ELSE NaN

\* a > b: false whenever an operand is NaN
JsGt(a, b) == IsNumber(a) /\ IsNumber(b) /\ a.n * b.d > b.n * a.d

\* Math.ceil
MathCeil(v) == IF IsNumber(v) THEN Num(-((-v.n) \div v.d)) ELSE v

\* Math.floor
MathFloor(v) == IF IsNumber(v) THEN Num(v.n \div v.d) ELSE v

\* truthiness: undefined, null, NaN, 0 and "" are falsy
Truthy(v) ==
    CASE v.t = "undefined" -> FALSE
      [] v.t = "null" -> FALSE
      [] v.t = "NaN" -> FALSE
      [] v.t = "number" -> v.n # 0
      [] v.t = "string" -> v.s # ""
      [] OTHER -> TRUE

(***************************************************************************)
(* Bounds.                                                                 *)
(***************************************************************************)
MaxTime == 1          \* SpecResource: timestamps and event times range over 0..MaxTime
MaxStart == 1         \* Spec: beacon resources start within 0..MaxStart
MaxFetchStart == 7    \* Spec: and have fetchStart within 0..MaxFetchStart
MaxResources == 2     \* Spec: a beacon's restiming holds at most this many resources
MaxLen == 2           \* SpecConsole: data holds at most this many characters
MaxSends == 2         \* SpecConsole: at most this many send calls

(***************************************************************************)
(* Resource Mapper.                                                        *)
(***************************************************************************)
EventNames == {"redirect", "dns", "connect", "response"}

\* Object.keys(resource.events): the keys present, in a fixed order
EventOrder == <<"redirect", "dns", "connect", "response">>

TimingNames == <<"blocked", "redirect", "dns", "connect", "request", "response">>

EventKeys(events) == SelectSeq(EventOrder, LAMBDA k : k \in DOMAIN events)

\* a timing or event object is a function from its keys to values
MapTimingPlain(name, event) ==
    [name |-> name,
     start |-> Get(event, "start"),
     duration |-> JsSub(Get(event, "end"), Get(event, "start"))]

MapTiming(name, event) ==
    IF event # Undefined
    THEN MapTimingPlain(name, event)
    ELSE MapTimingPlain(name, [start |-> Num(0), end |-> Num(0)])

MapEvent(name, res) == MapTiming(name, Get(res.events, name))

\* faulty variant of MapRequestTiming: the request ends where the response ends
MapRequestTimingResponseEnd(res) ==
    LET requestTiming ==
            IF Truthy(Get(res.timestamps, "requestStart"))
               /\ Get(res.events, "response") # Undefined
            THEN [start |-> res.timestamps.requestStart,
                  end |-> Get(res.events.response, "end")]
            ELSE Undefined
    IN  MapTiming("request", requestTiming)

MapRequestTiming(res) ==
    LET requestTiming ==
            IF Truthy(Get(res.timestamps, "requestStart"))
               /\ Get(res.events, "response") # Undefined
            THEN [start |-> res.timestamps.requestStart,
                  end |-> Get(res.events.response, "start")]
            ELSE Undefined
    IN  MapTiming("request", requestTiming)

\* faulty variant of GetResourceDuration: the event's own length instead of its end
\* measured from the resource's start
GetResourceDurationOwnLength(res, duration, eventName) ==
    LET eventDuration == JsSub(Get(res.events[eventName], "end"),
                               Get(res.events[eventName], "start"))
    IN  IF JsGt(eventDuration, duration) THEN eventDuration ELSE duration

GetResourceDuration(res, duration, eventName) ==
    LET eventDuration == JsSub(Get(res.events[eventName], "end"),
                               Get(res.timestamps, "start"))
    IN  IF JsGt(eventDuration, duration) THEN eventDuration ELSE duration

\* keys.reduce(getResourceDuration.bind(null, resource), acc)
RECURSIVE ReduceDuration(_, _, _)
ReduceDuration(res, acc, keys) ==
    IF keys = <<>> THEN acc
    ELSE ReduceDuration(res, GetResourceDuration(res, acc, Head(keys)), Tail(keys))

MapResource(referer, res) ==
    LET duration == ReduceDuration(res,
                                   JsSub(Get(res.timestamps, "fetchStart"),
                                         Get(res.timestamps, "start")),
                                   EventKeys(res.events))
        first == MapTiming("blocked",
                             [start |-> Get(res.timestamps, "start"),
                              duration |-> duration])
    IN  [page |-> referer,
         name |-> res.name,
         type |-> res.type,
         start |-> Get(res.timestamps, "start"),
         duration |-> duration,
         timings |-> << first @@ [blocked |-> TRUE],
                        MapEvent("redirect", res),
                        MapEvent("dns", res),
                        MapEvent("connect", res),
                        MapRequestTiming(res),
                        MapEvent("response", res) >>]

(***************************************************************************)
(* SpecResource: one raw resource, mapped once.                            *)
(***************************************************************************)
Times == 0 .. MaxTime

RawEvents == [start : {Num(n) : n \in Times}, end : {Num(n) : n \in Times}]

\* functions from a subset of the keys to the values
PartialFns(keys, vals) == UNION {[ks -> vals] : ks \in SUBSET keys}

RawTimestamps ==
    {base @@ opt :
        base \in [{"start", "fetchStart"} -> {Num(n) : n \in Times}],
        opt \in PartialFns({"requestStart"}, {Num(n) : n \in Times})}

RawResources ==
    [name : {"a.js"}, type : {"script"},
     timestamps : RawTimestamps,
     events : PartialFns(EventNames, RawEvents)]

Referer == "http://page/"

NotMapped == [t |-> "undefined"]

InitResource ==
    /\ phase = "start"
    /\ settings = Undefined
    /\ error = NoError
    /\ call = Undefined
    /\ resource \in RawResources
    /\ mapped = NotMapped
    /\ out = <<>>

MapResourceCall ==
    /\ mapped = NotMapped
    /\ mapped' = MapResource(Referer, resource)
    /\ UNCHANGED <<phase, settings, error, call, resource, out>>

NextResource == MapResourceCall

SpecResource == InitResource /\ [][NextResource]_vars

(***************************************************************************)
(* Settings Loader.                                                        *)
(***************************************************************************)
\* check-types predicates used by verifySettings
PositiveNumber(v) == IsNumber(v) /\ v.n > 0

IsObject(v) == v.t = "object"

IsArray(v) == v.t = "array"

UnemptyString(v) == v.t = "string" /\ v.s # ""

\* the message thrown for colours[index], or NoError (index counts from 0)
VerifyColour(colour, index) ==
    IF ~IsObject(colour)
    THEN "Invalid SVG colour [" \o ToString(index) \o "]"
    ELSE IF ~UnemptyString(Get(colour.f, "name"))
    THEN "Invalid SVG colour name [" \o ToString(index) \o "]"
    ELSE IF ~UnemptyString(Get(colour.f, "value"))
    THEN "Invalid SVG colour value [" \o ToString(index) \o "]"
    ELSE IF ~UnemptyString(Get(colour.f, "fg"))
    THEN "Invalid SVG foreground colour [" \o ToString(index) \o "]"
    ELSE NoError

\* colours.forEach: the first colour that fails stops the loop
VerifyColours(colours) ==
    LET bad == {i \in 1 .. Len(colours) : VerifyColour(colours[i], i - 1) # NoError}
    IN  IF bad = {} THEN NoError
        ELSE LET i == CHOOSE j \in bad : \A k \in bad : j <= k
             IN  VerifyColour(colours[i], i - 1)

\* faulty variant of VerifySettings: only too few colours are refused
VerifySettingsAtLeastSix(s) ==
    IF ~PositiveNumber(Get(s, "width")) THEN "Invalid SVG width"
    ELSE IF ~IsObject(Get(s, "offset")) THEN "Invalid SVG offset"
    ELSE IF ~PositiveNumber(Get(s.offset.f, "x")) THEN "Invalid SVG x offset"
    ELSE IF ~PositiveNumber(Get(s.offset.f, "x")) THEN "Invalid SVG y offset"
    ELSE IF ~PositiveNumber(Get(s, "barHeight")) THEN "Invalid SVG bar height"
    ELSE IF ~PositiveNumber(Get(s, "padding")) THEN "Invalid SVG padding"
    ELSE IF ~IsArray(Get(s, "colours")) THEN "Invalid SVG colours"
    ELSE IF Len(s.colours.a) < 6 THEN "Incorrect number of SVG colours"
    ELSE VerifyColours(s.colours.a)

\* the message of the error verifySettings throws, or NoError
VerifySettings(s) ==
    IF ~PositiveNumber(Get(s, "width")) THEN "Invalid SVG width"
    ELSE IF ~IsObject(Get(s, "offset")) THEN "Invalid SVG offset"
    ELSE IF ~PositiveNumber(Get(s.offset.f, "x")) THEN "Invalid SVG x offset"
    ELSE IF ~PositiveNumber(Get(s.offset.f, "x")) THEN "Invalid SVG y offset"
    ELSE IF ~PositiveNumber(Get(s, "barHeight")) THEN "Invalid SVG bar height"
    ELSE IF ~PositiveNumber(Get(s, "padding")) THEN "Invalid SVG padding"
    ELSE IF ~IsArray(Get(s, "colours")) THEN "Invalid SVG colours"
    ELSE IF Len(s.colours.a) # 6 THEN "Incorrect number of SVG colours"
    ELSE VerifyColours(s.colours.a)

\* getSettings on the object require() yields: the object afterwards, what
\* is returned, and the error thrown
GetSettings(file) ==
    LET thrown == VerifySettings(file)
    IN  IF thrown # NoError
        THEN [object |-> file, returned |-> FALSE, thrown |-> thrown]
        ELSE [object |->
                 [xAxis |-> Obj([x |-> JsDiv(file.width, Frac(9, 5)),
                                 y |-> JsSub(JsDiv(Get(file.offset.f, "y"), Num(2)),
                                             file.padding)]),
                  resourceHeight |-> JsAdd(file.barHeight, file.padding),
                  barPadding |-> MathFloor(JsDiv(file.padding, Num(2)))]
                 @@ file,
              returned |-> TRUE,
              thrown |-> NoError]

\* the settings documents initialise is tried on
Colour(name) == Obj([name |-> Str(name), value |-> Str("#000"), fg |-> Str("#fff")])

SixColours == [i \in 1 .. 6 |-> Colour(TimingNames[i])]

ColourLists ==
    {SixColours,
     SubSeq(SixColours, 1, 5),
     Append(SixColours, Colour("extra")),
     [SixColours EXCEPT ![3] = Obj([name |-> Str("dns"), value |-> Str("#000")])],
     [SixColours EXCEPT ![6] = Str("red")]}

Offsets ==
    {Obj(o) : o \in [x : {Num(0), Num(2)}, y : {Num(4)}]}
    \cup {Obj([x |-> Num(2)]), Num(5)}

SettingsFiles ==
    {base @@ offset @@ colours :
        base \in [width : {Num(-1), Num(0), Num(18)},
                  barHeight : {Num(0), Num(2)},
                  padding : {Num(0), Num(1)}],
        offset \in PartialFns({"offset"}, Offsets),
        colours \in PartialFns({"colours"}, {Arr(c) : c \in ColourLists})}

(***************************************************************************)
(* Chart Geometry Builder.                                                 *)
(***************************************************************************)
GetMaximumValue(maximum, res) ==
    LET end == JsAdd(res.start, res.duration)
    IN  IF JsGt(end, maximum) THEN end ELSE maximum

\* resources.reduce(getMaximumValue, acc)
RECURSIVE ReduceMaximum(_, _)
ReduceMaximum(acc, resources) ==
    IF resources = <<>> THEN acc
    ELSE ReduceMaximum(GetMaximumValue(acc, Head(resources)), Tail(resources))

GetSvgHeight(s, resources) ==
    JsAdd(JsMul(Num(Len(resources) + 1), JsAdd(s.barHeight, s.padding)),
          s.offset.f.x)

\* getSvgTicks, statement by statement, for a non-empty list.  Each local is
\* bound to its value once assigned (x \in {e}), as the assignment does.

\* width, height and pixelsPerUnit: the locals once pixelsPerUnit is set
TickScale(s, resources, step, maximum, minimum, difference) ==
    CHOOSE locals \in
        {[step |-> step,
          maximum |-> maximum,
          minimum |-> minimum,
          difference |-> difference,
          width |-> width,
          height |-> JsMul(Num(Len(resources)), JsAdd(s.barHeight, s.padding)),
          pixelsPerUnit |-> JsDiv(width, difference)] :
            width \in {JsSub(s.width, s.offset.f.x)}} : TRUE

\* difference = maximum - minimum
TickDifference(s, resources, step, maximum, minimum) ==
    CHOOSE locals \in
        {TickScale(s, resources, step, maximum, minimum, difference) :
            difference \in {JsSub(maximum, minimum)}} : TRUE

\* maximum += step - (maximum % step); minimum -= minimum % step
TickRound(s, resources, rawMinimum, rawMaximum, step) ==
    CHOOSE locals \in
        {TickDifference(s, resources, step, maximum, minimum) :
            maximum \in {JsAdd(rawMaximum, JsSub(step, JsRem(rawMaximum, step)))},
            minimum \in {JsSub(rawMinimum, JsRem(rawMinimum, step))}} : TRUE

\* step = Math.ceil((maximum - minimum) / 5)
TickStep(s, resources, rawMinimum, rawMaximum) ==
    CHOOSE locals \in
        {TickRound(s, resources, rawMinimum, rawMaximum, step) :
            step \in {MathCeil(JsDiv(JsSub(rawMaximum, rawMinimum), Num(5)))}} : TRUE

\* minimum = resources[0].start; maximum = resources.reduce(getMaximumValue, 0)
SvgTickLocals(s, resources) ==
    CHOOSE locals \in
        {TickStep(s, resources, rawMinimum, rawMaximum) :
            rawMinimum \in {resources[1].start},
            rawMaximum \in {ReduceMaximum(Num(0), resources)}} : TRUE

GetXPosition(locals, value) ==
    IF value = Num(0) THEN Num(0)
    ELSE JsMul(JsSub(value, locals.minimum), locals.pixelsPerUnit)

\* the callback handed to ticks.forEach, for one index
TickAt(locals, index) ==
    LET value == JsMul(Num(index), locals.step)
    IN  [x |-> GetXPosition(locals, value),
         height |-> locals.height,
         value |-> value]

\* new Array(n) has n holes; forEach never visits a hole
ForEachTick(locals, ticks) ==
    [i \in 1 .. Len(ticks) |->
        IF ticks[i] # Hole THEN TickAt(locals, i - 1) ELSE ticks[i]]

\* new Array(length) throws unless length is a non-negative integer
ValidArrayLength(length) == IsNumber(length) /\ length.d = 1 /\ length.n >= 0

GetSvgTicks(s, resources) ==
    IF resources = <<>>
    THEN [thrown |-> "TypeError: Cannot read property 'start' of undefined",
          ticks |-> Undefined]
    ELSE CHOOSE result \in
             {LET length == JsDiv(locals.difference, locals.step)
              IN  IF ~ValidArrayLength(length)
                  THEN [thrown |-> "RangeError: Invalid array length",
                        ticks |-> Undefined]
                  ELSE [thrown |-> NoError,
                        ticks |-> Arr(ForEachTick(locals,
                                                  [i \in 1 .. length.n |-> Hole]))] :
                 locals \in {SvgTickLocals(s, resources)}} : TRUE

\* the body of mapSvgResource is empty
MapSvgResource(s, res, index) == Undefined

(***************************************************************************)
(* Report Assembler.                                                       *)
(***************************************************************************)
\* faulty variant of CustomiseSvgSettings: result is the settings object itself
CustomiseSvgSettingsInPlace(s, resources) ==
    CHOOSE outcome \in
        {LET withHeight == [height |-> GetSvgHeight(s, resources)] @@ s
             result == [ticks |-> ticks.ticks,
                        resources |-> Arr([i \in 1 .. Len(resources) |->
                                              MapSvgResource(s, resources[i], i - 1)])]
                       @@ withHeight
         IN  IF ticks.thrown # NoError
             THEN [settings |-> withHeight, thrown |-> ticks.thrown,
                   result |-> Undefined]
             ELSE [settings |-> result, thrown |-> NoError, result |-> result] :
            ticks \in {GetSvgTicks(s, resources)}} : TRUE

\* customiseSvgSettings: the settings object afterwards, the error thrown and
\* the copy returned
CustomiseSvgSettings(s, resources) ==
    CHOOSE outcome \in
        {LET copy == [name \in DOMAIN s |-> s[name]]
             result == [height |-> GetSvgHeight(s, resources),
                        ticks |-> ticks.ticks,
                        resources |-> Arr([i \in 1 .. Len(resources) |->
                                              MapSvgResource(s, resources[i], i - 1)])]
                       @@ copy
         IN  IF ticks.thrown # NoError
             THEN [settings |-> s, thrown |-> ticks.thrown, result |-> Undefined]
             ELSE [settings |-> s, thrown |-> NoError, result |-> result] :
            ticks \in {GetSvgTicks(s, resources)}} : TRUE

\* the compiled template applied to its context: the rendered document
Template(context) == [t |-> "rendered", context |-> context]

\* data.restiming.map(mapResource.bind(null, referer))
MapResources(referer, restiming) ==
    [i \in 1 .. Len(restiming) |-> MapResource(referer, restiming[i])]

\* the rest of map once resources is set: the template is called only if
\* customiseSvgSettings returns
MapRender(s, resources) ==
    CHOOSE outcome \in
        {IF svg.thrown # NoError
         THEN [settings |-> svg.settings, thrown |-> svg.thrown,
               returned |-> Undefined,
               resourcesMapped |-> Len(resources), templateCalls |-> 0]
         ELSE [settings |-> svg.settings, thrown |-> NoError,
               returned |-> Template([svg |-> svg.result, details |-> resources]),
               resourcesMapped |-> Len(resources), templateCalls |-> 1] :
            svg \in {CustomiseSvgSettings(s, resources)}} : TRUE

\* faulty variant of Map: the guard tests restiming for truthiness only
MapTruthyGuard(s, data, referer) ==
    IF ~Truthy(Get(data, "restiming"))
    THEN [settings |-> s, thrown |-> NoError, returned |-> Str(""),
          resourcesMapped |-> 0, templateCalls |-> 0]
    ELSE IF ~IsArray(data.restiming)
    THEN [settings |-> s, thrown |-> "TypeError: data.restiming.map is not a function",
          returned |-> Undefined, resourcesMapped |-> 0, templateCalls |-> 0]
    ELSE CHOOSE outcome \in
             {MapRender(s, resources) :
                 resources \in {MapResources(referer, data.restiming.a)}} : TRUE

\* map with template bound: the settings object afterwards, the error thrown,
\* the value returned, the number of resources mapped and of template calls
Map(s, data, referer) ==
    IF ~IsArray(Get(data, "restiming"))
    THEN [settings |-> s, thrown |-> NoError, returned |-> Str(""),
          resourcesMapped |-> 0, templateCalls |-> 0]
    ELSE CHOOSE outcome \in
             {MapRender(s, resources) :
                 resources \in {MapResources(referer, data.restiming.a)}} : TRUE

(***************************************************************************)
(* Spec: initialise, then map calls.                                       *)
(***************************************************************************)
BeaconResources ==
    {[name |-> "a.js", type |-> "script",
      timestamps |-> [start |-> Num(a), fetchStart |-> Num(b)],
      events |-> <<>>] : a \in 0 .. MaxStart, b \in 0 .. MaxFetchStart}

RECURSIVE SeqsUpTo(_, _)
SeqsUpTo(S, n) ==
    IF n = 0 THEN {<<>>}
    ELSE LET shorter == SeqsUpTo(S, n - 1)
         IN  shorter \cup {Append(q, x) : q \in shorter, x \in S}

\* beacon payloads: restiming missing, of a wrong type, or an array
Beacons ==
    {<<>>}
    \cup {[restiming |-> v] : v \in {Null, Num(5), Str("x"), Str(""), Obj(<<>>)}}
    \cup {[restiming |-> Arr(q)] : q \in SeqsUpTo(BeaconResources, MaxResources)}

NoCall == [t |-> "undefined"]

Init ==
    /\ phase = "start"
    /\ settings = Undefined
    /\ error = NoError
    /\ call = NoCall
    /\ resource = Undefined
    /\ mapped = NotMapped
    /\ out = <<>>

\* initialise(options): getTemplate reads the template file, getSettings
\* requires and verifies the settings, and map is bound to both
Initialise ==
    /\ phase = "start"
    /\ \E templateExists \in BOOLEAN, file \in SettingsFiles :
          IF ~templateExists
          THEN /\ phase' = "failed"
               /\ error' = "ENOENT"
               /\ settings' = settings
          ELSE LET loaded == GetSettings(file)
               IN  /\ phase' = IF loaded.returned THEN "ready" ELSE "failed"
                   /\ error' = loaded.thrown
                   /\ settings' = loaded.object
    /\ UNCHANGED <<call, resource, mapped, out>>

\* one call of the bound map on a beacon; map is synchronous, so a call
\* starts only once the previous one has returned to its caller
MapCall ==
    /\ phase = "ready"
    /\ call = NoCall
    /\ \E data \in Beacons :
          LET r == Map(settings, data, Referer)
          IN  /\ settings' = r.settings
              /\ call' = [data |-> data,
                          thrown |-> r.thrown,
                          returned |-> r.returned,
                          resourcesMapped |-> r.resourcesMapped,
                          templateCalls |-> r.templateCalls]
    /\ UNCHANGED <<phase, error, resource, mapped, out>>

\* the caller takes what map returned (or threw); nothing of the call persists
MapReturn ==
    /\ call # NoCall
    /\ call' = NoCall
    /\ UNCHANGED <<phase, settings, error, resource, mapped, out>>

Next == Initialise \/ MapCall \/ MapReturn

Spec == Init /\ [][Next]_vars

(***************************************************************************)
(* SpecConsole: the console forwarder.                                     *)
(***************************************************************************)
\* characters a string may hold, with their sizes in UTF-16 code units (what
\* String.prototype.length counts) and in UTF-8 bytes (what stdout receives)
Chars == {"a", "e-acute", "euro", "emoji"}

Utf16Units(c) == CASE c = "a" -> 1 [] c = "e-acute" -> 1 [] c = "euro" -> 1 [] c = "emoji" -> 2

Utf8Bytes(c) == CASE c = "a" -> 1 [] c = "e-acute" -> 2 [] c = "euro" -> 3 [] c = "emoji" -> 4

\* data.length of a string
RECURSIVE StringLength(_)
StringLength(chars) ==
    IF chars = <<>> THEN 0 ELSE Utf16Units(Head(chars)) + StringLength(Tail(chars))

\* the bytes the string occupies once written
RECURSIVE ByteLength(_)
ByteLength(chars) ==
    IF chars = <<>> THEN 0 ELSE Utf8Bytes(Head(chars)) + ByteLength(Tail(chars))

ConsoleData == SeqsUpTo(Chars, MaxLen)

InitConsole ==
    /\ phase = "start"
    /\ settings = Undefined
    /\ error = NoError
    /\ call = NoCall
    /\ resource = Undefined
    /\ mapped = NotMapped
    /\ out = <<>>

\* send(data, separator, callback): console.log(data), then the callback
Send ==
    /\ Len(out) < 2 * MaxSends
    /\ \E data \in ConsoleData, separator \in {"\n"} :
          out' = out \o << [op |-> "console.log", data |-> data],
                           [op |-> "callback", error |-> Null,
                            length |-> Num(StringLength(data))] >>
    /\ UNCHANGED <<phase, settings, error, call, resource, mapped>>

NextConsole == Send

SpecConsole == InitConsole /\ [][NextConsole]_vars

(***************************************************************************)
(* Properties of the Resource Mapper (checked under SpecResource).         *)
(***************************************************************************)
\* the integer value of a whole number
IntOf(v) == v.n

SetMax(S) == CHOOSE m \in S : \A x \in S : m >= x

ResourceStart == IntOf(resource.timestamps.start)

\* fetchStart - start, and e.end - start for every event present
DurationCandidates ==
    {IntOf(resource.timestamps.fetchStart) - ResourceStart}
    \cup {IntOf(resource.events[e].end) - ResourceStart : e \in DOMAIN resource.events}

\* C1: the duration mapResource yields is the maximum of fetchStart - start
\* and e.end - start over every event e present, hence at least each of them.
C1_DurationIsMaximum ==
    mapped # NotMapped =>
        /\ mapped.duration = Num(SetMax(DurationCandidates))
        /\ \A c \in DurationCandidates : JsGt(mapped.duration, Num(c - 1))

\* a mapped resource one of whose events ends after fetchStart
C1_Witness ==
    /\ mapped # NotMapped
    /\ \E e \in DOMAIN resource.events :
          IntOf(resource.events[e].end) > IntOf(resource.timestamps.fetchStart)
    /\ mapped.duration # JsSub(resource.timestamps.fetchStart, resource.timestamps.start)

Placeholder(name) == [name |-> name, start |-> Num(0), duration |-> Num(0)]

\* C2: timings has exactly 6 entries named blocked, redirect, dns, connect,
\* request, response in this order; an entry whose source event is absent has
\* start 0 and duration 0; the blocked entry has the resource's start and the
\* resource's duration and is the only entry flagged blocked.
C2_TimingsShape ==
    mapped # NotMapped =>
        /\ Len(mapped.timings) = 6
        /\ \A i \in 1 .. 6 : mapped.timings[i].name = TimingNames[i]
        /\ \A i \in {2, 3, 4, 6} :
              TimingNames[i] \notin DOMAIN resource.events =>
                  /\ mapped.timings[i].start = Num(0)
                  /\ mapped.timings[i].duration = Num(0)
        /\ mapped.timings[1].start = mapped.start
        /\ mapped.timings[1].duration = mapped.duration
        /\ \A i \in 1 .. 6 :
              ("blocked" \in DOMAIN mapped.timings[i]) <=> (i = 1)

RequestMaterialised ==
    /\ "requestStart" \in DOMAIN resource.timestamps
    /\ IntOf(resource.timestamps.requestStart) # 0
    /\ "response" \in DOMAIN resource.events

\* C3: the request segment has start = requestStart and duration =
\* response.start - requestStart exactly when requestStart is present and
\* non-zero and the response event is present; otherwise it is the
\* placeholder with start 0 and duration 0.
C3_RequestSegment ==
    mapped # NotMapped =>
        /\ RequestMaterialised =>
              /\ mapped.timings[5].start = resource.timestamps.requestStart
              /\ mapped.timings[5].duration =
                    Num(IntOf(resource.events.response.start)
                        - IntOf(resource.timestamps.requestStart))
        /\ ~RequestMaterialised => mapped.timings[5] = Placeholder("request")
        /\ (mapped.timings[5] # Placeholder("request")) <=> RequestMaterialised

\* a materialised request segment whose response does not end where it starts
C3_Witness ==
    /\ mapped # NotMapped
    /\ RequestMaterialised
    /\ resource.events.response.start # resource.events.response.end
    /\ mapped.timings[5].start = resource.timestamps.requestStart

(***************************************************************************)
(* Properties of map and the Chart Geometry Builder (checked under Spec).  *)
(***************************************************************************)
Restiming == Get(call.data, "restiming")

\* the normalised resources of the latest call, for an array restiming
CallResources == MapResources(Referer, Restiming.a)

EmptyResult(v) ==
    \/ v = Str("")
    \/ v.t = "rendered" /\ v.context.details = <<>>

\* C4: a map call on a beacon whose restiming is an empty array or is
\* missing returns an empty result and raises no exception.
C4_EmptyRestimingNoException ==
    (call # NoCall /\ (Restiming = Undefined \/ Restiming = Arr(<<>>))) =>
        /\ call.thrown = NoError
        /\ EmptyResult(call.returned)

\* C5: a map call on a beacon whose restiming is absent or not an array
\* returns the empty string, throws nothing, maps no resource, never invokes
\* the template and leaves the settings as they were.
C5_NonArrayRestiming ==
    [][(call = NoCall /\ call' # NoCall /\ ~IsArray(Get(call'.data, "restiming"))) =>
          /\ call'.returned = Str("")
          /\ call'.thrown = NoError
          /\ call'.resourcesMapped = 0
          /\ call'.templateCalls = 0
          /\ settings' = settings]_vars

\* a call whose restiming is a non-empty string has returned the sentinel
C5_Witness ==
    /\ call # NoCall
    /\ Restiming = Str("x")
    /\ call.returned = Str("")

\* the resources of the latest call are at least one and span nonzero time
SpansTime ==
    /\ call # NoCall
    /\ IsArray(Restiming)
    /\ Restiming.a # <<>>
    /\ SvgTickLocals(settings, CallResources).step.n > 0

\* C6: for a non-empty resource list spanning nonzero time the ticks are
\* (roundedMaximum - roundedMinimum) / step entries; index i holds a tick
\* with value i * step and height count(resources) * (barHeight + padding),
\* with x = 0 when the value is 0 and (value - roundedMinimum) *
\* pixelsPerUnit otherwise.
C6_TickEntries ==
    SpansTime =>
        /\ call.thrown = NoError
        /\ LET locals == SvgTickLocals(settings, CallResources)
               ticks == call.returned.context.svg.ticks.a
               count == (locals.maximum.n - locals.minimum.n) \div locals.step.n
           IN  /\ Len(ticks) = count
               /\ \A i \in 0 .. count - 1 :
                     /\ ticks[i + 1] # Hole
                     /\ ticks[i + 1].value = Num(i * locals.step.n)
                     /\ ticks[i + 1].height =
                           Num(Len(CallResources)
                               * (settings.barHeight.n + settings.padding.n))
                     /\ ticks[i + 1].x =
                           IF i = 0 THEN Num(0)
                           ELSE JsMul(Num(i * locals.step.n - locals.minimum.n),
                                      locals.pixelsPerUnit)

Rejected(s) ==
    \/ Get(s, "width") \in {Num(0), Num(-1)}
    \/ ~IsObject(Get(s, "offset"))
    \/ Get(s, "barHeight") = Num(0)
    \/ /\ IsArray(Get(s, "colours"))
       /\ \/ Len(s.colours.a) \in {5, 7}
          \/ \E i \in 1 .. Len(s.colours.a) :
                IsObject(s.colours.a[i]) /\ "fg" \notin DOMAIN s.colours.a[i].f

DerivedFields == {"xAxis", "resourceHeight", "barPadding"}

\* C7: loading settings with width 0 or -1, an offset that is not an object,
\* barHeight 0, 5 or 7 colours, or a colour without fg raises an error: no
\* mapping function and no settings object is returned, and none of xAxis,
\* resourceHeight, barPadding has been added.
C7_SettingsRejected ==
    (settings # Undefined /\ Rejected(settings)) =>
        /\ phase = "failed"
        /\ error # NoError
        /\ DerivedFields \cap DOMAIN settings = {}

\* settings refused for their seven colours alone
C7_Witness ==
    /\ phase = "failed"
    /\ settings # Undefined
    /\ error = "Incorrect number of SVG colours"
    /\ Len(settings.colours.a) = 7

GeometryFields == {"height", "ticks", "resources"}

\* C8: once initialise has returned the mapping function, no map call
\* changes the settings object; height, ticks and resources are written to
\* the copy handed to the template and never to the settings.
C8_SettingsUnchangedByMap ==
    /\ [][phase = "ready" => (phase' = "ready" /\ settings' = settings)]_vars
    /\ [](phase = "ready" => GeometryFields \cap DOMAIN settings = {})
    /\ []((call # NoCall /\ call.templateCalls = 1) =>
             /\ GeometryFields \subseteq DOMAIN call.returned.context.svg
             /\ \A name \in DOMAIN settings :
                   call.returned.context.svg[name] = settings[name])

\* a call has rendered a chart whose copy carries the geometry
C8_Witness ==
    /\ call # NoCall
    /\ call.templateCalls = 1
    /\ "height" \in DOMAIN call.returned.context.svg
    /\ "height" \notin DOMAIN settings

\* the multiples of step within reach of the bounded times
Multiples(step) == {k * step : k \in 0 .. MaxFetchStart + MaxStart + 1}

\* C10: with step > 0 the rounded maximum is the least multiple of step that
\* is >= the largest start + duration, and the rounded minimum is the
\* greatest multiple of step that is <= the first resource's start; a value
\* that is already a multiple of step is left unchanged.
C10_RoundedToNearestMultiple ==
    SpansTime =>
        LET locals == SvgTickLocals(settings, CallResources)
            step == locals.step.n
            rawMaximum == SetMax({CallResources[i].start.n + CallResources[i].duration.n :
                                     i \in 1 .. Len(CallResources)})
            rawMinimum == CallResources[1].start.n
        IN  /\ locals.maximum =
                  Num(CHOOSE m \in Multiples(step) :
                         /\ m >= rawMaximum
                         /\ \A k \in Multiples(step) : k >= rawMaximum => m <= k)
            /\ locals.minimum =
                  Num(SetMax({m \in Multiples(step) : m <= rawMinimum}))

(***************************************************************************)
(* Properties of the console forwarder (checked under SpecConsole).        *)
(***************************************************************************)
\* C9: every send invokes its callback exactly once, after the data has been
\* written to the log, with a null error and the byte length of the data.
C9_CallbackOnceWithByteLength ==
    /\ Len(out) % 2 = 0
    /\ \A k \in 1 .. Len(out) :
          IF k % 2 = 1
          THEN out[k].op = "console.log"
          ELSE /\ out[k].op = "callback"
               /\ out[k].error = Null
               /\ out[k].length = Num(ByteLength(out[k - 1].data))

====
